---- MODULE Spec2Model ----
(***************************************************************************)
(* Model of buildGithubIdp (cmd/ocm/create/idp/github.go): the assembly of *)
(* a GitHub identity provider from the command's flags, with the           *)
(* interactive registration flow that asks for what the flags left out.    *)
(*                                                                         *)
(* A Go string is a tuple of its characters, so that Contains, Split,       *)
(* HasSuffix, the DNS-1123 check, the IP parser and the URL parser are     *)
(* computed character by character, and byte by byte where the code works  *)
(* on bytes, as the code computes them.                                    *)
(***************************************************************************)
EXTENDS Integers, Sequences, FiniteSets, TLC

VARIABLES
    args,           \* the flag-bound globals read by buildGithubIdp
    pc,             \* where the invocation stands
    clientID,       \* local, line 39
    clientSecret,   \* local, line 40
    organizations,  \* local, line 41
    teams,          \* local, line 42
    teamsOrOrgs,    \* local, line 43
    terminal,       \* what the operator has seen: printed lines and prompts, in order
    idpBuilder,     \* named result
    err             \* named result

vars == <<args, pc, clientID, clientSecret, organizations, teams, teamsOrOrgs,
          terminal, idpBuilder, err>>

----------------------------------------------------------------------------
(* Bounds of the explored inputs. *)

\* longest generated organizations/teams flag value or prompt answer
MaxLen == 1
\* longest generated hostname
MaxHostLen == 1

----------------------------------------------------------------------------
(* package strings *)

EmptyString == <<>>

\* strings.Contains(s, c) for a one-character c
Contains(s, c) == \E i \in 1..Len(s) : s[i] = c

\* strings.Index(s, c) for a one-character c, 1-based; 0 when absent
Index(s, c) ==
    IF Contains(s, c) THEN CHOOSE i \in 1..Len(s) : s[i] = c /\ \A j \in 1..(i-1) : s[j] # c
    ELSE 0

\* strings.HasSuffix(s, suffix)
HasSuffix(s, suffix) ==
    /\ Len(s) >= Len(suffix)
    /\ SubSeq(s, Len(s) - Len(suffix) + 1, Len(s)) = suffix

\* strings.Split(s, sep) for a one-character sep: the pieces between the
\* separators, empty pieces kept, <<s>> when sep does not occur
RECURSIVE Split(_, _)
Split(s, sep) ==
    LET i == Index(s, sep) IN
    IF i = 0 THEN <<s>>
    ELSE <<SubSeq(s, 1, i - 1)>> \o Split(SubSeq(s, i + 1, Len(s)), sep)

\* all strings over alphabet of length at most n
RECURSIVE StringsUpTo(_, _)
StringsUpTo(alphabet, n) ==
    IF n = 0 THEN {EmptyString}
    ELSE LET shorter == StringsUpTo(alphabet, n - 1) IN
         shorter \cup {Append(s, c) : s \in shorter, c \in alphabet}

\* n copies of the character c
Repeat(c, n) == [i \in 1..n |-> c]

----------------------------------------------------------------------------
(* character classes *)

DecDigits == <<"0","1","2","3","4","5","6","7","8","9">>
HexLower  == <<"0","1","2","3","4","5","6","7","8","9","a","b","c","d","e","f">>
HexUpper  == <<"0","1","2","3","4","5","6","7","8","9","A","B","C","D","E","F">>
LowerCase == {"a","b","c","d","e","f","g","h","i","j","k","l","m",
              "n","o","p","q","r","s","t","u","v","w","x","y","z"}

IsDigit(c) == \E i \in 1..10 : DecDigits[i] = c
IsHex(c)   == \E i \in 1..16 : HexLower[i] = c \/ HexUpper[i] = c
DigitVal(c) == (CHOOSE i \in 1..10 : DecDigits[i] = c) - 1
HexVal(c)   == (CHOOSE i \in 1..16 : HexLower[i] = c \/ HexUpper[i] = c) - 1
IsLowerAlnum(c) == c \in LowerCase \/ IsDigit(c)

----------------------------------------------------------------------------
(* k8s.io/utils/net: ParseIPSloppy, the pre-1.17 net.ParseIP *)

NilIP == <<>>

\* dtoi: the decimal number s starts with, the digits read, and ok;
\* not ok with no digit or once the number reaches 0xFFFFFF
RECURSIVE DtoiFrom(_, _, _)
DtoiFrom(s, i, n) ==
    IF i <= Len(s) /\ IsDigit(s[i])
    THEN LET m == n * 10 + DigitVal(s[i]) IN
         IF m >= 16777215 THEN [n |-> 16777215, c |-> i - 1, ok |-> FALSE]
         ELSE DtoiFrom(s, i + 1, m)
    ELSE IF i = 1 THEN [n |-> 0, c |-> 0, ok |-> FALSE]
    ELSE [n |-> n, c |-> i - 1, ok |-> TRUE]

Dtoi(s) == DtoiFrom(s, 1, 0)

\* xtoi: the same for a hexadecimal number
RECURSIVE XtoiFrom(_, _, _)
XtoiFrom(s, i, n) ==
    IF i <= Len(s) /\ IsHex(s[i])
    THEN LET m == n * 16 + HexVal(s[i]) IN
         IF m >= 16777215 THEN [n |-> 0, c |-> i - 1, ok |-> FALSE]
         ELSE XtoiFrom(s, i + 1, m)
    ELSE IF i = 1 THEN [n |-> 0, c |-> 0, ok |-> FALSE]
    ELSE [n |-> n, c |-> i - 1, ok |-> TRUE]

Xtoi(s) == XtoiFrom(s, 1, 0)

\* the bytes of the fields of d.d.d.d read so far, or NilIP
RECURSIVE ParseIPv4Fields(_, _)
ParseIPv4Fields(s, p) ==
    IF Len(p) = 4 THEN (IF Len(s) # 0 THEN NilIP ELSE p)
    ELSE IF Len(s) = 0 THEN NilIP
    ELSE IF Len(p) > 0 /\ s[1] # "." THEN NilIP
    ELSE LET s1 == IF Len(p) > 0 THEN Tail(s) ELSE s
             d  == Dtoi(s1)
         IN IF ~d.ok \/ d.n > 255 THEN NilIP
            ELSE ParseIPv4Fields(SubSeq(s1, d.c + 1, Len(s1)), Append(p, d.n))

\* parseIPv4: the 16-byte form of d.d.d.d (leading zeroes allowed), or NilIP
ParseIPv4(s) ==
    LET p == ParseIPv4Fields(s, <<>>) IN
    IF p = NilIP THEN NilIP
    ELSE <<0, 0, 0, 0, 0, 0, 0, 0, 0, 0, 255, 255>> \o p

\* the loop of parseIPv6: ip holds the bytes parsed so far (i = Len(ip))
RECURSIVE ParseIPv6Loop(_, _, _)
ParseIPv6Loop(s, ip, ellipsis) ==
    LET fail == [ok |-> FALSE, s |-> s, ip |-> ip, ellipsis |-> ellipsis]
        i == Len(ip)
        x == Xtoi(s)
    IN
    IF i >= 16 THEN [ok |-> TRUE, s |-> s, ip |-> ip, ellipsis |-> ellipsis]
    ELSE IF ~x.ok \/ x.n > 65535 THEN fail
    ELSE IF x.c < Len(s) /\ s[x.c + 1] = "."
    THEN \* trailing IPv4
         IF ellipsis < 0 /\ i # 12 THEN fail
         ELSE IF i + 4 > 16 THEN fail
         ELSE LET ip4 == ParseIPv4(s) IN
              IF ip4 = NilIP THEN fail
              ELSE [ok |-> TRUE, s |-> EmptyString,
                    ip |-> ip \o SubSeq(ip4, 13, 16), ellipsis |-> ellipsis]
    ELSE LET ip2 == ip \o <<x.n \div 256, x.n % 256>>
             s1  == SubSeq(s, x.c + 1, Len(s))
         IN
         IF Len(s1) = 0 THEN [ok |-> TRUE, s |-> s1, ip |-> ip2, ellipsis |-> ellipsis]
         ELSE IF s1[1] # ":" \/ Len(s1) = 1 THEN fail
         ELSE LET s2 == Tail(s1) IN
              IF s2[1] = ":"
              THEN IF ellipsis >= 0 THEN fail
                   ELSE IF Len(s2) = 1
                        THEN [ok |-> TRUE, s |-> EmptyString, ip |-> ip2, ellipsis |-> Len(ip2)]
                        ELSE ParseIPv6Loop(Tail(s2), ip2, Len(ip2))
              ELSE ParseIPv6Loop(s2, ip2, ellipsis)

\* parseIPv6: the 16 bytes of an IPv6 literal, or NilIP
ParseIPv6(s) ==
    LET leading == Len(s) >= 2 /\ s[1] = ":" /\ s[2] = ":"
        s0 == IF leading THEN SubSeq(s, 3, Len(s)) ELSE s
        e0 == IF leading THEN 0 ELSE -1
    IN
    IF leading /\ Len(s0) = 0 THEN Repeat(0, 16)
    ELSE LET r == ParseIPv6Loop(s0, <<>>, e0) IN
         IF ~r.ok THEN NilIP
         ELSE IF Len(r.s) # 0 THEN NilIP
         ELSE IF Len(r.ip) < 16
              THEN IF r.ellipsis < 0 THEN NilIP
                   ELSE SubSeq(r.ip, 1, r.ellipsis)
                        \o Repeat(0, 16 - Len(r.ip))
                        \o SubSeq(r.ip, r.ellipsis + 1, Len(r.ip))
              ELSE IF r.ellipsis >= 0 THEN NilIP
              ELSE r.ip

\* ParseIPSloppy: the first '.' or ':' of s decides the family
ParseIPSloppy(s) ==
    LET marks == {i \in 1..Len(s) : s[i] \in {".", ":"}} IN
    IF marks = {} THEN NilIP
    ELSE LET first == CHOOSE i \in marks : \A j \in marks : i <= j IN
         IF s[first] = "." THEN ParseIPv4(s) ELSE ParseIPv6(s)

----------------------------------------------------------------------------
(* The bytes of a Go string.  An element of a string of the model is a     *)
(* character of U+0000..U+00FF and stands for its UTF-8 encoding (one byte *)
(* below U+0080, two from there on), or is written \xNN and stands for the *)
(* single byte NN, for the bytes that are no character on their own (and   *)
(* for 0x60, which a TLA+ string cannot hold).                             *)

\* the characters, by code point (index = code point + 1)
Characters == <<
    "\\x00","","","","","","","","","\t","\n","","\f","\r","","",
    "","","","","","","","","","","","","","","","",
    " ","!","\"","#","$","%","&","'","(",")","*","+",",","-",".","/",
    "0","1","2","3","4","5","6","7","8","9",":",";","<","=",">","?",
    "@","A","B","C","D","E","F","G","H","I","J","K","L","M","N","O",
    "P","Q","R","S","T","U","V","W","X","Y","Z","[","\\","]","^","_",
    "\\x60","a","b","c","d","e","f","g","h","i","j","k","l","m","n","o",
    "p","q","r","s","t","u","v","w","x","y","z","{","|","}","~","",
    "","","","","","","","","","","","","","","","",
    "","","","","","","","","","","","","","","","",
    " ","¡","¢","£","¤","¥","¦","§","¨","©","ª","«","¬","­","®","¯",
    "°","±","²","³","´","µ","¶","·","¸","¹","º","»","¼","½","¾","¿",
    "À","Á","Â","Ã","Ä","Å","Æ","Ç","È","É","Ê","Ë","Ì","Í","Î","Ï",
    "Ð","Ñ","Ò","Ó","Ô","Õ","Ö","×","Ø","Ù","Ú","Û","Ü","Ý","Þ","ß",
    "à","á","â","ã","ä","å","æ","ç","è","é","ê","ë","ì","í","î","ï",
    "ð","ñ","ò","ó","ô","õ","ö","÷","ø","ù","ú","û","ü","ý","þ","ÿ">>

\* the lone bytes 0x80..0xFF (index = byte - 127)
LoneBytes == <<
    "\\x80","\\x81","\\x82","\\x83","\\x84","\\x85","\\x86","\\x87",
    "\\x88","\\x89","\\x8A","\\x8B","\\x8C","\\x8D","\\x8E","\\x8F",
    "\\x90","\\x91","\\x92","\\x93","\\x94","\\x95","\\x96","\\x97",
    "\\x98","\\x99","\\x9A","\\x9B","\\x9C","\\x9D","\\x9E","\\x9F",
    "\\xA0","\\xA1","\\xA2","\\xA3","\\xA4","\\xA5","\\xA6","\\xA7",
    "\\xA8","\\xA9","\\xAA","\\xAB","\\xAC","\\xAD","\\xAE","\\xAF",
    "\\xB0","\\xB1","\\xB2","\\xB3","\\xB4","\\xB5","\\xB6","\\xB7",
    "\\xB8","\\xB9","\\xBA","\\xBB","\\xBC","\\xBD","\\xBE","\\xBF",
    "\\xC0","\\xC1","\\xC2","\\xC3","\\xC4","\\xC5","\\xC6","\\xC7",
    "\\xC8","\\xC9","\\xCA","\\xCB","\\xCC","\\xCD","\\xCE","\\xCF",
    "\\xD0","\\xD1","\\xD2","\\xD3","\\xD4","\\xD5","\\xD6","\\xD7",
    "\\xD8","\\xD9","\\xDA","\\xDB","\\xDC","\\xDD","\\xDE","\\xDF",
    "\\xE0","\\xE1","\\xE2","\\xE3","\\xE4","\\xE5","\\xE6","\\xE7",
    "\\xE8","\\xE9","\\xEA","\\xEB","\\xEC","\\xED","\\xEE","\\xEF",
    "\\xF0","\\xF1","\\xF2","\\xF3","\\xF4","\\xF5","\\xF6","\\xF7",
    "\\xF8","\\xF9","\\xFA","\\xFB","\\xFC","\\xFD","\\xFE","\\xFF">>

CodePointOf == [c \in {Characters[i] : i \in 1..256} |->
                   (CHOOSE i \in 1..256 : Characters[i] = c) - 1]
LoneByteOf == [c \in {LoneBytes[i] : i \in 1..128} |->
                   (CHOOSE i \in 1..128 : LoneBytes[i] = c) + 127]

\* the byte of an ASCII character
Byte(c) == CodePointOf[c]

\* the bytes one element stands for
ElementBytes(c) ==
    IF c \in DOMAIN LoneByteOf THEN <<LoneByteOf[c]>>
    ELSE IF CodePointOf[c] < 128 THEN <<CodePointOf[c]>>
    ELSE <<192 + (CodePointOf[c] \div 64), 128 + (CodePointOf[c] % 64)>>

\* []byte(s)
RECURSIVE ToBytes(_)
ToBytes(s) == IF s = <<>> THEN <<>> ELSE ElementBytes(Head(s)) \o ToBytes(Tail(s))

\* string(b)
RECURSIVE FromBytes(_)
FromBytes(b) ==
    IF b = <<>> THEN <<>>
    ELSE IF b[1] < 128 THEN <<Characters[b[1] + 1]>> \o FromBytes(Tail(b))
    ELSE IF b[1] \in {194, 195} /\ Len(b) >= 2 /\ b[2] \in 128..191
    THEN <<Characters[(b[1] - 192) * 64 + (b[2] - 128) + 1]>> \o FromBytes(SubSeq(b, 3, Len(b)))
    ELSE <<LoneBytes[b[1] - 127]>> \o FromBytes(Tail(b))

----------------------------------------------------------------------------
(* k8s.io/apimachinery/pkg/util/validation *)

\* one label of dns1123LabelFmt: [a-z0-9]([-a-z0-9]*[a-z0-9])?
MatchesDNS1123Label(label) ==
    /\ Len(label) >= 1
    /\ \A i \in 1..Len(label) : IsLowerAlnum(label[i]) \/ label[i] = "-"
    /\ IsLowerAlnum(label[1])
    /\ IsLowerAlnum(label[Len(label)])

\* dns1123SubdomainFmt, anchored: label(\.label)*
MatchesDNS1123Subdomain(value) ==
    LET labels == Split(value, ".") IN
    \A i \in 1..Len(labels) : MatchesDNS1123Label(labels[i])

\* len(s): the number of bytes of the string
ByteLen(s) ==
    Len(s) + Cardinality({i \in 1..Len(s) : Len(ElementBytes(s[i])) = 2})

\* validation.IsDNS1123Subdomain: the list of complaints, empty when valid;
\* the length compared with 253 is the number of bytes
IsDNS1123Subdomain(value) ==
    (IF ByteLen(value) > 253 THEN <<"must be no more than 253 characters">> ELSE <<>>)
    \o (IF ~MatchesDNS1123Subdomain(value) THEN <<"a lowercase RFC 1123 subdomain must consist of lower case alphanumeric characters, '-' or '.', and must start and end with an alphanumeric character">> ELSE <<>>)

----------------------------------------------------------------------------
(* package net/url: url.Parse and URL.String, on the bytes of the string *)

\* stringContainsCTLByte: a byte below 0x20, or 0x7f
stringContainsCTLByte(s) == \E i \in 1..Len(s) : s[i] < 32 \/ s[i] = 127

\* strings.Cut(s, c): the text before the first c and the text after it
CutBefore(s, c) == IF Contains(s, c) THEN SubSeq(s, 1, Index(s, c) - 1) ELSE s
CutAfter(s, c)  == IF Contains(s, c) THEN SubSeq(s, Index(s, c) + 1, Len(s)) ELSE EmptyString

\* ishex and unhex
ishex(c) == c \in 48..57 \/ c \in 97..102 \/ c \in 65..70
unhex(c) == IF c \in 48..57 THEN c - 48 ELSE IF c \in 97..102 THEN c - 97 + 10 ELSE c - 65 + 10

\* the upper-case hexadecimal digit of a nibble
upperhex(n) == IF n < 10 THEN 48 + n ELSE 65 + n - 10

IsAlnumByte(c) == c \in 48..57 \/ c \in 65..90 \/ c \in 97..122

\* shouldEscape, for the modes encodePath and encodeFragment
shouldEscape(c, mode) ==
    IF IsAlnumByte(c) THEN FALSE
    ELSE IF c \in {Byte("-"), Byte("_"), Byte("."), Byte("~")} THEN FALSE
    ELSE IF c \in {Byte("$"), Byte("&"), Byte("+"), Byte(","), Byte("/"),
                   Byte(":"), Byte(";"), Byte("="), Byte("?"), Byte("@")}
    THEN (IF mode = "encodePath" THEN c = Byte("?") ELSE FALSE)
    ELSE IF mode = "encodeFragment" /\ c \in {Byte("!"), Byte("("), Byte(")"), Byte("*")}
    THEN FALSE
    ELSE TRUE

\* unescape fails on a '%' that two hexadecimal digits do not follow
RECURSIVE ValidEscapesFrom(_, _)
ValidEscapesFrom(s, i) ==
    IF i > Len(s) THEN TRUE
    ELSE IF s[i] = Byte("%")
         THEN IF i + 2 > Len(s) \/ ~ishex(s[i + 1]) \/ ~ishex(s[i + 2]) THEN FALSE
              ELSE ValidEscapesFrom(s, i + 3)
         ELSE ValidEscapesFrom(s, i + 1)

ValidEscapes(s) == ValidEscapesFrom(s, 1)

\* unescape of a string with valid escapes, in the modes encodePath and
\* encodeFragment: every %XY becomes the byte XY
RECURSIVE unescape(_)
unescape(s) ==
    IF s = <<>> THEN <<>>
    ELSE IF s[1] = Byte("%")
    THEN <<unhex(s[2]) * 16 + unhex(s[3])>> \o unescape(SubSeq(s, 4, Len(s)))
    ELSE <<s[1]>> \o unescape(Tail(s))

\* escape: every byte that shouldEscape names becomes %XY
RECURSIVE escape(_, _)
escape(s, mode) ==
    IF s = <<>> THEN <<>>
    ELSE (IF shouldEscape(s[1], mode)
          THEN <<Byte("%"), upperhex(s[1] \div 16), upperhex(s[1] % 16)>>
          ELSE <<s[1]>>)
         \o escape(Tail(s), mode)

\* validEncoding
validEncoding(s, mode) ==
    \A i \in 1..Len(s) :
        \/ s[i] \in {Byte("!"), Byte("$"), Byte("&"), Byte("'"), Byte("("), Byte(")"),
                     Byte("*"), Byte("+"), Byte(","), Byte(";"), Byte("="), Byte(":"),
                     Byte("@"), Byte("["), Byte("]"), Byte("%")}
        \/ ~shouldEscape(s[i], mode)

\* the raw form setPath and setFragment keep: none when escaping the
\* decoded bytes gives back what was written
rawForm(written, mode) ==
    IF written = escape(unescape(written), mode) THEN <<>> ELSE written

\* EscapedPath and EscapedFragment: the raw form when it is a valid encoding
\* of the decoded bytes, their escape otherwise
escapedForm(decoded, raw, mode) ==
    IF raw # <<>> /\ validEncoding(raw, mode) /\ ValidEscapes(raw) /\ unescape(raw) = decoded
    THEN raw
    ELSE IF mode = "encodePath" /\ decoded = <<Byte("*")>> THEN decoded
    ELSE escape(decoded, mode)

NilURL == [Scheme |-> EmptyString, Host |-> EmptyString, Path |-> EmptyString,
           RawPath |-> EmptyString, ForceQuery |-> FALSE, RawQuery |-> EmptyString,
           Fragment |-> EmptyString, RawFragment |-> EmptyString]

\* url.Parse of scheme://authority/path[?query][#fragment]
urlParse(rawURL) ==
    LET bytes  == ToBytes(rawURL)
        u      == CutBefore(bytes, Byte("#"))
        frag   == CutAfter(bytes, Byte("#"))
        scheme == CutBefore(u, Byte(":"))
        rest   == CutAfter(u, Byte(":"))
        force  == /\ Len(rest) > 0
                  /\ rest[Len(rest)] = Byte("?")
                  /\ Cardinality({i \in 1..Len(rest) : rest[i] = Byte("?")}) = 1
        noqry  == IF force THEN SubSeq(rest, 1, Len(rest) - 1) ELSE CutBefore(rest, Byte("?"))
        query  == IF force THEN <<>> ELSE CutAfter(rest, Byte("?"))
        auth   == SubSeq(noqry, 3, Len(noqry))
        host   == CutBefore(auth, Byte("/"))
        path   == SubSeq(auth, Len(host) + 1, Len(auth))
    IN
    IF stringContainsCTLByte(u) \/ ~ValidEscapes(path) \/ ~ValidEscapes(frag)
    THEN [err |-> TRUE, url |-> NilURL]
    ELSE [err |-> FALSE,
          url |-> [Scheme |-> FromBytes(scheme),
                   Host |-> FromBytes(host),
                   Path |-> FromBytes(unescape(path)),
                   RawPath |-> FromBytes(rawForm(path, "encodePath")),
                   ForceQuery |-> force,
                   RawQuery |-> FromBytes(query),
                   Fragment |-> FromBytes(unescape(frag)),
                   RawFragment |-> FromBytes(rawForm(frag, "encodeFragment"))]]

\* u.EscapedPath()
EscapedPath(u) == FromBytes(escapedForm(ToBytes(u.Path), ToBytes(u.RawPath), "encodePath"))

\* u.EscapedFragment()
EscapedFragment(u) ==
    FromBytes(escapedForm(ToBytes(u.Fragment), ToBytes(u.RawFragment), "encodeFragment"))

\* no URL printed
NoURLString == [Scheme |-> EmptyString, Host |-> EmptyString, EscapedPath |-> EmptyString,
                Query |-> [callback_url |-> "", name |-> "", url |-> ""],
                EscapedFragment |-> EmptyString]

\* u.String() once u.RawQuery is values.Encode(): the parts of
\* scheme://host path ?query #fragment, the query as the values it encodes
urlString(u, values) ==
    [Scheme |-> u.Scheme,
     Host |-> u.Host,
     EscapedPath |-> EscapedPath(u),
     Query |-> values,
     EscapedFragment |-> EscapedFragment(u)]

----------------------------------------------------------------------------
(* the cluster and the name of the identity provider, arguments of         *)
(* buildGithubIdp resolved by its caller                                   *)

cluster == [name |-> "my-cluster",
            consoleURL |-> "https://console.my-cluster.example.com",
            oauthURL |-> "https://oauth.my-cluster.example.com"]

idpName == "github-1"

\* c.GetClusterOauthURL: the OAuth base URL of the cluster
GetClusterOauthURL(cl) == cl.oauthURL

----------------------------------------------------------------------------
(* ocm-sdk-go clustersmgmt/v1 builders: the fields set, and their values *)

\* cmv1.NewGithubIdentityProvider()
NewGithubIdentityProvider ==
    [isNil |-> FALSE, fields |-> {}, clientID |-> EmptyString, clientSecret |-> EmptyString,
     hostname |-> EmptyString, organizations |-> <<>>, teams |-> <<>>]

NilGithubIdentityProvider == [NewGithubIdentityProvider EXCEPT !.isNil = TRUE]

\* the zero value of cmv1.IdentityProviderBuilder
ZeroIdentityProviderBuilder ==
    [fields |-> {}, type |-> "", name |-> "", mappingMethod |-> "",
     github |-> NilGithubIdentityProvider]

----------------------------------------------------------------------------
(* github.go *)

GithubCom    == <<"g","i","t","h","u","b",".","c","o","m">>
DotGithubCom == <<".","g","i","t","h","u","b",".","c","o","m">>

\* the errors buildGithubIdp returns
NilError == [format |-> "<nil>", arg |-> EmptyString]
ConflictError ==
    [format |-> "GitHub IDP only allows either organizations or teams, but not both",
     arg |-> EmptyString]
InputErrorTeamsOrOrgs ==
    [format |-> "Expected a GitHub organization or team name", arg |-> EmptyString]
InputErrorClientID ==
    [format |-> "Expected a GitHub application Client ID", arg |-> EmptyString]
InputErrorClientSecret ==
    [format |-> "Expected a GitHub application Client Secret", arg |-> EmptyString]
URLError == [format |-> "Error parsing URL: %v", arg |-> EmptyString]
InvalidHostnameError(hostname) ==
    [format |-> "'%s' hostname must be a valid DNS subdomain or IP address", arg |-> hostname]
GithubHostnameError(hostname) ==
    [format |-> "'%s' hostname cannot be equal to [*.]github.com", arg |-> hostname]

InputErrors == {InputErrorTeamsOrOrgs, InputErrorClientID, InputErrorClientSecret}
ValidationErrors(hostname) == {InvalidHostnameError(hostname), GithubHostnameError(hostname)}

\* isValidHostname, line 34
isValidHostname(hostname) ==
    Len(IsDNS1123Subdomain(hostname)) = 0 \/ ParseIPSloppy(hostname) # NilIP

\* line 135 without the suffix test: only github.com itself is refused
isGithubDomainExact(hostname) == hostname = GithubCom

\* line 135: the hostname is github.com or under it
isGithubDomain(hostname) ==
    hostname = GithubCom \/ HasSuffix(hostname, DotGithubCom)

\* line 45 with the teams test inverted
bothGivenTeamsInverted(orgs, tms) == orgs # EmptyString /\ tms = EmptyString

\* line 45: organizations and teams are both given
bothGiven(orgs, tms) == orgs # EmptyString /\ tms # EmptyString

\* line 49 without the client-secret test
isInteractiveIgnoringSecret(cid, secret, orgs, tms) ==
    cid = EmptyString \/ (orgs = EmptyString /\ tms = EmptyString)

\* line 49
isInteractive(cid, secret, orgs, tms) ==
    cid = EmptyString \/ secret = EmptyString \/ (orgs = EmptyString /\ tms = EmptyString)

\* lines 65-70 with the else branch taken unconditionally: an answer naming
\* teams is stored as organizations too
classifyAlsoAsOrganizations(orgs, tms, answer) ==
    IF Contains(answer, "/")
    THEN [organizations |-> answer, teams |-> answer]
    ELSE [organizations |-> answer, teams |-> tms]

\* lines 65-70: organizations and teams after the answer has been classified
classify(orgs, tms, answer) ==
    IF Contains(answer, "/")
    THEN [organizations |-> orgs, teams |-> answer]
    ELSE [organizations |-> answer, teams |-> tms]

\* fmt.Sprintf("https://github.com/organizations/%s/settings/applications/new", org)
orgRegisterURL(org) ==
    <<"h","t","t","p","s",":","/","/","g","i","t","h","u","b",".","c","o","m","/","o","r","g","a","n","i","z","a","t","i","o","n","s","/">>
    \o org \o
    <<"/","s","e","t","t","i","n","g","s","/","a","p","p","l","i","c","a","t","i","o","n","s","/","n","e","w">>

\* lines 72-81 without the branch for a single team
registerURLBaseWithoutTeams(orgs, tms) ==
    IF orgs # EmptyString /\ ~Contains(orgs, ",")
    THEN orgRegisterURL(orgs)
    ELSE <<"h","t","t","p","s",":","/","/","g","i","t","h","u","b",".","c","o","m","/","s","e","t","t","i","n","g","s","/","a","p","p","l","i","c","a","t","i","o","n","s","/","n","e","w">>

\* lines 72-81
registerURLBase(orgs, tms) ==
    IF orgs # EmptyString /\ ~Contains(orgs, ",")
    THEN orgRegisterURL(orgs)
    ELSE IF tms # EmptyString /\ ~Contains(tms, ",")
    THEN orgRegisterURL(Split(tms, "/")[1])
    ELSE <<"h","t","t","p","s",":","/","/","g","i","t","h","u","b",".","c","o","m","/","s","e","t","t","i","n","g","s","/","a","p","p","l","i","c","a","t","i","o","n","s","/","n","e","w">>

\* lines 88-96: the fields of the registration form, as url.Values
urlParams ==
    [callback_url |-> GetClusterOauthURL(cluster) \o "/oauth2callback/" \o idpName,
     name |-> cluster.name,
     url |-> cluster.consoleURL]

\* what the operator sees
Println(text) == [op |-> "Println", text |-> text, url |-> NoURLString]
PrintURL(text, u) == [op |-> "Println", text |-> text, url |-> u]
AskOne(message) == [op |-> "AskOne", text |-> message, url |-> NoURLString]

HeaderLine == Println("To use GitHub as an identity provider, you must first register the application:")
ClickLine  == Println("* Click on 'Register application'")
OpenURLText == "* Open the following URL:"
TeamsOrOrgsPrompt == AskOne("List of GitHub organizations or teams that will have access to this cluster:")
ClientIDPrompt == AskOne("Copy the Client ID provided by GitHub:")
ClientSecretPrompt == AskOne("Copy the Client Secret provided by GitHub:")

\* lines 143-148
setOrganizationsOrTeams(githubIDP, orgs, tms) ==
    IF orgs # EmptyString
    THEN [githubIDP EXCEPT !.organizations = Split(orgs, ","),
                           !.fields = @ \cup {"organizations"}]
    ELSE IF tms # EmptyString
    THEN [githubIDP EXCEPT !.teams = Split(tms, ","), !.fields = @ \cup {"teams"}]
    ELSE githubIDP

\* lines 122-125
newGithubIDP(cid, secret) ==
    [NewGithubIdentityProvider EXCEPT !.clientID = cid, !.clientSecret = secret,
                                      !.fields = {"client_id", "client_secret"}]

\* lines 150-155 without the call of Github
buildIdpWithoutGithub(name, mappingMethod, githubIDP) ==
    [fields |-> {"type", "name", "mapping_method"},
     type |-> "GithubIdentityProvider",
     name |-> name,
     mappingMethod |-> mappingMethod,
     github |-> NilGithubIdentityProvider]

\* lines 150-155
buildIdp(name, mappingMethod, githubIDP) ==
    [fields |-> {"type", "name", "mapping_method", "github"},
     type |-> "GithubIdentityProvider",
     name |-> name,
     mappingMethod |-> mappingMethod,
     github |-> githubIDP]

----------------------------------------------------------------------------
(* the inputs explored *)

\* the characters of generated organizations/teams values: a letter, the two
\* separators the code looks for, and '%', which breaks the registration URL;
\* the samples add names with an escape, a space, '?', '#' and DEL
NameAlphabet == {"a", ",", "/", "%"}

NameSamples == {
    <<"a","c","m","e">>,
    <<"a","c","m","e",",","b","e","t","a">>,
    <<"a","c","m","e","/","d","e","v","s">>,
    <<"a","c","m","e","/","d","e","v","s",",","b","e","t","a","/","o","p","s">>,
    <<"a","c","m","e",",">>,
    <<"/","d","e","v","s">>,
    <<"a","c","%","m","e">>,
    <<"a","c","%","2","F","m","e">>,
    <<"a"," ","b">>,
    <<"a","?","b">>,
    <<"a","#","b">>,
    <<"a","","b">>}

\* values of --github-organizations and --github-teams, and answers to the
\* organizations-or-teams prompt
Names == StringsUpTo(NameAlphabet, MaxLen) \cup NameSamples

HostAlphabet == {"a", "A", "-", ".", "1", ":"}

HostnameSamples == {
    <<"g","i","t","h","u","b",".","c","o","m">>,
    <<"x",".","g","i","t","h","u","b",".","c","o","m">>,
    <<"x","g","i","t","h","u","b",".","c","o","m">>,
    <<"g","i","t","h","u","b",".","c","o","m",".","e","x","a","m","p","l","e",".","o","r","g">>,
    <<"n","o","t","_","v","a","l","i","d","_","h","o","s","t","!">>,
    <<"g","h","e",".","e","x","a","m","p","l","e",".","c","o","m">>,
    <<"G","i","t","H","u","b",".","c","o","m">>,
    <<"-","g","h","e",".","c","o","m">>,
    <<"1","0",".","0",".","0",".","1">>,
    <<"2","5","6",".","0",".","0",".","1">>,
    <<"1",".","2",".","3">>,
    <<":",":","1">>,
    <<":",":","f","f","f","f",":","1","0",".","0",".","0",".","1">>,
    <<"1",":",":","2",":",":","3">>,
    <<"f","e","8","0",":",":","1">>,
    Repeat("a", 253),
    Repeat("a", 254),
    <<Characters[234]>> \o Repeat("a", 252)}

\* values of --github-hostname
Hostnames == StringsUpTo(HostAlphabet, MaxHostLen) \cup HostnameSamples

\* values of --client-id and --client-secret, and answers to their prompts
ClientIDs == {EmptyString, <<"i", "d">>}
ClientSecrets == {EmptyString, <<"s", "e", "c">>}

\* values of --mapping-method
MappingMethods == {"claim", "add"}

Args == [clientID : ClientIDs, clientSecret : ClientSecrets,
         githubOrganizations : Names, githubTeams : Names,
         githubHostname : Hostnames, mappingMethod : MappingMethods]

----------------------------------------------------------------------------
(* buildGithubIdp, one action per stretch of code between two prompts *)

Init ==
    /\ args \in Args
    /\ pc = "entry"
    /\ clientID = EmptyString
    /\ clientSecret = EmptyString
    /\ organizations = EmptyString
    /\ teams = EmptyString
    /\ teamsOrOrgs = EmptyString
    /\ terminal = <<>>
    /\ idpBuilder = ZeroIdentityProviderBuilder
    /\ err = NilError

\* return idpBuilder, e
Return(e) ==
    /\ pc' = "returned"
    /\ err' = e
    /\ idpBuilder' = idpBuilder

\* lines 39-59: read the flags, refuse organizations with teams, decide the
\* mode, print the header and ask for organizations or teams if none is given
Entry ==
    /\ pc = "entry"
    /\ clientID' = args.clientID
    /\ clientSecret' = args.clientSecret
    /\ organizations' = args.githubOrganizations
    /\ teams' = args.githubTeams
    /\ teamsOrOrgs' = EmptyString
    /\ UNCHANGED args
    /\ IF bothGiven(args.githubOrganizations, args.githubTeams)
       THEN /\ Return(ConflictError)
            /\ UNCHANGED terminal
       ELSE /\ UNCHANGED <<idpBuilder, err>>
            /\ IF isInteractive(args.clientID, args.clientSecret,
                                args.githubOrganizations, args.githubTeams)
               THEN IF args.githubOrganizations = EmptyString /\ args.githubTeams = EmptyString
                    THEN /\ terminal' = terminal \o <<HeaderLine, TeamsOrOrgsPrompt>>
                         /\ pc' = "askTeamsOrOrgs"
                    ELSE /\ terminal' = Append(terminal, HeaderLine)
                         /\ pc' = "registerURL"
               ELSE /\ UNCHANGED terminal
                    /\ pc' = "createIDP"

\* lines 59-63: survey.AskOne returns the operator's line, or an error when
\* the prompt is interrupted
TeamsOrOrgsAnswered ==
    /\ pc = "askTeamsOrOrgs"
    /\ \E answer \in Names :
        /\ teamsOrOrgs' = answer
        /\ pc' = "registerURL"
    /\ UNCHANGED <<args, clientID, clientSecret, organizations, teams, terminal,
                   idpBuilder, err>>

TeamsOrOrgsAborted ==
    /\ pc = "askTeamsOrOrgs"
    /\ Return(InputErrorTeamsOrOrgs)
    /\ UNCHANGED <<args, clientID, clientSecret, organizations, teams, teamsOrOrgs, terminal>>

\* lines 101-119 with the two prompts in the other order
NextCredentialPromptSecretFirst(cid, secret, shown) ==
    IF secret = EmptyString
    THEN /\ terminal' = Append(shown, ClientSecretPrompt)
         /\ pc' = "askClientSecret"
    ELSE IF cid = EmptyString
    THEN /\ terminal' = Append(shown, ClientIDPrompt)
         /\ pc' = "askClientID"
    ELSE /\ terminal' = shown
         /\ pc' = "createIDP"

\* lines 101-105 and 111-115: the prompt for the first credential still missing
NextCredentialPrompt(cid, secret, shown) ==
    IF cid = EmptyString
    THEN /\ terminal' = Append(shown, ClientIDPrompt)
         /\ pc' = "askClientID"
    ELSE IF secret = EmptyString
    THEN /\ terminal' = Append(shown, ClientSecretPrompt)
         /\ pc' = "askClientSecret"
    ELSE /\ terminal' = shown
         /\ pc' = "createIDP"

\* lines 65-105: classify the answer, build and print the registration URL,
\* then ask for the client ID or the client secret if missing
RegisterURL ==
    /\ pc = "registerURL"
    /\ LET resolved == classify(organizations, teams, teamsOrOrgs)
           parsed   == urlParse(registerURLBase(resolved.organizations, resolved.teams))
       IN
       /\ organizations' = resolved.organizations
       /\ teams' = resolved.teams
       /\ IF parsed.err
          THEN /\ Return(URLError)
               /\ UNCHANGED terminal
          ELSE /\ UNCHANGED <<idpBuilder, err>>
               /\ NextCredentialPrompt(clientID, clientSecret,
                      terminal \o <<PrintURL(OpenURLText, urlString(parsed.url, urlParams)),
                                   ClickLine>>)
    /\ UNCHANGED <<args, clientID, clientSecret, teamsOrOrgs>>

\* lines 105-115
ClientIDAnswered ==
    /\ pc = "askClientID"
    /\ \E answer \in ClientIDs :
        /\ clientID' = answer
        /\ IF clientSecret = EmptyString
           THEN /\ terminal' = Append(terminal, ClientSecretPrompt)
                /\ pc' = "askClientSecret"
           ELSE /\ UNCHANGED terminal
                /\ pc' = "createIDP"
    /\ UNCHANGED <<args, clientSecret, organizations, teams, teamsOrOrgs, idpBuilder, err>>

ClientIDAborted ==
    /\ pc = "askClientID"
    /\ Return(InputErrorClientID)
    /\ UNCHANGED <<args, clientID, clientSecret, organizations, teams, teamsOrOrgs, terminal>>

\* lines 115-119
ClientSecretAnswered ==
    /\ pc = "askClientSecret"
    /\ \E answer \in ClientSecrets :
        /\ clientSecret' = answer
        /\ pc' = "createIDP"
    /\ UNCHANGED <<args, clientID, organizations, teams, teamsOrOrgs, terminal,
                   idpBuilder, err>>

ClientSecretAborted ==
    /\ pc = "askClientSecret"
    /\ Return(InputErrorClientSecret)
    /\ UNCHANGED <<args, clientID, clientSecret, organizations, teams, teamsOrOrgs, terminal>>

\* lines 127-141: the hostname check; the error it ends with, or NilError
hostnameError(hostname) ==
    IF hostname = EmptyString THEN NilError
    ELSE IF ~isValidHostname(hostname) THEN InvalidHostnameError(hostname)
    ELSE IF isGithubDomain(hostname) THEN GithubHostnameError(hostname)
    ELSE NilError

\* line 140
setHostname(githubIDP, hostname) ==
    IF hostname # EmptyString
    THEN [githubIDP EXCEPT !.hostname = hostname, !.fields = @ \cup {"hostname"}]
    ELSE githubIDP

\* lines 122-157: check the hostname and assemble the identity provider
CreateIDP ==
    /\ pc = "createIDP"
    /\ LET failure == hostnameError(args.githubHostname)
           githubIDP == setOrganizationsOrTeams(
                            setHostname(newGithubIDP(clientID, clientSecret),
                                        args.githubHostname),
                            organizations, teams)
       IN
       IF failure # NilError
       THEN Return(failure)
       ELSE /\ idpBuilder' = buildIdp(idpName, args.mappingMethod, githubIDP)
            /\ err' = err
            /\ pc' = "returned"
    /\ UNCHANGED <<args, clientID, clientSecret, organizations, teams, teamsOrOrgs, terminal>>

Next ==
    \/ Entry
    \/ TeamsOrOrgsAnswered
    \/ TeamsOrOrgsAborted
    \/ RegisterURL
    \/ ClientIDAnswered
    \/ ClientIDAborted
    \/ ClientSecretAnswered
    \/ ClientSecretAborted
    \/ CreateIDP

Spec == Init /\ [][Next]_vars

----------------------------------------------------------------------------
(* vocabulary of the properties *)

Acme == <<"a","c","m","e">>
AcmeDevs == <<"a","c","m","e","/","d","e","v","s">>
GheExampleCom == <<"g","h","e",".","e","x","a","m","p","l","e",".","c","o","m">>

GenericPath == <<"/","s","e","t","t","i","n","g","s","/","a","p","p","l","i","c","a","t","i","o","n","s","/","n","e","w">>
OrgScopedPath(org) ==
    <<"/","o","r","g","a","n","i","z","a","t","i","o","n","s","/">>
    \o org \o
    <<"/","s","e","t","t","i","n","g","s","/","a","p","p","l","i","c","a","t","i","o","n","s","/","n","e","w">>

\* the flags name both organizations and teams
Conflicting == args.githubOrganizations # EmptyString /\ args.githubTeams # EmptyString
\* the flags name neither
NeitherGiven == args.githubOrganizations = EmptyString /\ args.githubTeams = EmptyString

Returned == pc = "returned"
Succeeded == pc = "returned" /\ err = NilError

\* the texts of what the operator has seen, in order
Shown == [i \in 1..Len(terminal) |-> terminal[i].text]
\* the prompts among them
Prompts == SelectSeq(terminal, LAMBDA e : e.op = "AskOne")
WasAsked(prompt) == \E i \in 1..Len(terminal) : terminal[i] = prompt
\* the registration URLs printed
PrintedURLs == {terminal[i].url : i \in {j \in 1..Len(terminal) : terminal[j].text = OpenURLText}}

\* the organizations string the operator supplied: the flag, or the answer to
\* the combined prompt when it names organizations
SuppliedOrganizations ==
    IF args.githubOrganizations # EmptyString THEN args.githubOrganizations
    ELSE IF NeitherGiven /\ ~Contains(teamsOrOrgs, "/") THEN teamsOrOrgs
    ELSE EmptyString

\* the teams string the operator supplied: the flag, or the answer to the
\* combined prompt when it names teams
SuppliedTeams ==
    IF args.githubTeams # EmptyString THEN args.githubTeams
    ELSE IF NeitherGiven /\ Contains(teamsOrOrgs, "/") THEN teamsOrOrgs
    ELSE EmptyString

\* the characters a URL path carries as written: letters, digits and the
\* punctuation that is neither percent-encoded nor ends the path
PathCharacters ==
    {"a","b","c","d","e","f","g","h","i","j","k","l","m",
     "n","o","p","q","r","s","t","u","v","w","x","y","z",
     "A","B","C","D","E","F","G","H","I","J","K","L","M",
     "N","O","P","Q","R","S","T","U","V","W","X","Y","Z",
     "0","1","2","3","4","5","6","7","8","9",
     "-","_",".","~","$","&","+",",","/",":",";","=","@",
     "!","'","(",")","*","[","]","%"}

CarriedAsWritten(s) == \A i \in 1..Len(s) : s[i] \in PathCharacters

IsPrefix(s, u) == Len(s) <= Len(u) /\ SubSeq(u, 1, Len(s)) = s

----------------------------------------------------------------------------
(* C1 *)

\* C1: when the organizations flag and the teams flag are both non-empty, the
\* invocation returns the conflict error whatever the other flags are, with
\* nothing printed, no prompt issued and no identity provider built.
C1_ConflictFailsBeforeAnyOutput ==
    Conflicting =>
        \/ pc = "entry"
        \/ /\ pc = "returned"
           /\ err = ConflictError
           /\ terminal = <<>>
           /\ idpBuilder = ZeroIdentityProviderBuilder

\* a conflicting invocation has returned although both credentials are given
\* and the hostname is one the hostname check would have refused
C1_Witness ==
    /\ Conflicting
    /\ pc = "returned"
    /\ err = ConflictError
    /\ args.clientID # EmptyString
    /\ args.clientSecret # EmptyString
    /\ args.githubHostname = GithubCom

----------------------------------------------------------------------------
(* C2 *)

\* C2: for flags that do not conflict, guidance is printed or a prompt is
\* issued if and only if the client ID is empty, or the client secret is
\* empty, or organizations and teams are both empty; otherwise the invocation
\* goes straight to the assembly with nothing shown.
C2_InteractiveIffSomethingMissing ==
    (~Conflicting /\ pc # "entry") =>
        LET missing == \/ args.clientID = EmptyString
                       \/ args.clientSecret = EmptyString
                       \/ NeitherGiven
        IN /\ (terminal # <<>>) <=> missing
           /\ ~missing => pc \in {"createIDP", "returned"}

\* a batch invocation has succeeded with nothing shown
C2_Witness ==
    /\ Succeeded
    /\ args.clientID # EmptyString
    /\ args.clientSecret # EmptyString
    /\ args.githubOrganizations = Acme
    /\ terminal = <<>>

----------------------------------------------------------------------------
(* C3 *)

\* C3: when the invocation succeeds, the organizations (teams) read back from
\* the identity provider are the comma-split, in order, of the organizations
\* (teams) string supplied by flag or by the answer to the combined prompt.
C3_RoundTrip ==
    Succeeded =>
        /\ SuppliedOrganizations # EmptyString =>
               idpBuilder.github.organizations = Split(SuppliedOrganizations, ",")
        /\ SuppliedTeams # EmptyString =>
               idpBuilder.github.teams = Split(SuppliedTeams, ",")

----------------------------------------------------------------------------
(* C4 *)

\* C4: whenever the registration URL is printed and the organizations value
\* supplied (by flag or by answer) is a single organization, the path of the
\* URL is the page of that organization.
C4_SingleOrganizationPath ==
    (SuppliedOrganizations # EmptyString /\ ~Contains(SuppliedOrganizations, ",")) =>
        \A u \in PrintedURLs : u.EscapedPath = OrgScopedPath(SuppliedOrganizations)

----------------------------------------------------------------------------
(* C5 *)

\* C5 as claimed: whenever the registration URL is printed and the
\* organizations value is not a single organization: with a single team (by
\* flag or by answer) the path is the page of the organization named before
\* the first '/' of the team; with several organizations, several teams or
\* neither, the path is the generic page.
C5_TeamOrGenericPath ==
    (SuppliedOrganizations = EmptyString \/ Contains(SuppliedOrganizations, ",")) =>
        \A u \in PrintedURLs :
            IF SuppliedTeams # EmptyString /\ ~Contains(SuppliedTeams, ",")
            THEN u.EscapedPath = OrgScopedPath(CutBefore(SuppliedTeams, "/"))
            ELSE u.EscapedPath = GenericPath

\* C5 amended: the same, the page of the organization of a single team being
\* claimed only of an organization text made of characters a URL path
\* carries as written.
C5_TeamOrGenericPathAsWritten ==
    (SuppliedOrganizations = EmptyString \/ Contains(SuppliedOrganizations, ",")) =>
        \A u \in PrintedURLs :
            IF SuppliedTeams # EmptyString /\ ~Contains(SuppliedTeams, ",")
            THEN CarriedAsWritten(CutBefore(SuppliedTeams, "/")) =>
                     u.EscapedPath = OrgScopedPath(CutBefore(SuppliedTeams, "/"))
            ELSE u.EscapedPath = GenericPath

\* the URL of the organization of the single team given by flag has been printed
C5_Witness ==
    /\ args.githubTeams = AcmeDevs
    /\ \E u \in PrintedURLs : u.EscapedPath = OrgScopedPath(Acme)

----------------------------------------------------------------------------
(* C6 *)

\* C6: when the flags give neither organizations nor teams, the combined
\* prompt is issued exactly once, and an invocation whose combined prompt was
\* aborted or answered with the empty string returns the input error of that
\* prompt, with no identity provider built and no later prompt issued.
C6_EmptyAnswerIsInputError ==
    (NeitherGiven /\ pc # "entry") =>
        /\ Len(SelectSeq(terminal, LAMBDA e : e = TeamsOrOrgsPrompt)) = 1
        /\ (Returned /\ teamsOrOrgs = EmptyString) =>
               /\ err = InputErrorTeamsOrOrgs
               /\ idpBuilder = ZeroIdentityProviderBuilder
               /\ Prompts = <<TeamsOrOrgsPrompt>>

----------------------------------------------------------------------------
(* C7 *)

\* every prompt the flags call for has been issued and none was aborted
PassedAllPrompts ==
    /\ err \notin InputErrors
    /\ NeitherGiven => WasAsked(TeamsOrOrgsPrompt)
    /\ args.clientID = EmptyString => WasAsked(ClientIDPrompt)
    /\ args.clientSecret = EmptyString => WasAsked(ClientSecretPrompt)

\* what C7 says of an invocation that has returned
HostnameOutcome ==
    LET hostname == args.githubHostname
        refused  == \/ (IsDNS1123Subdomain(hostname) # <<>> /\ ParseIPSloppy(hostname) = NilIP)
                    \/ hostname = GithubCom
                    \/ HasSuffix(hostname, DotGithubCom)
    IN
    IF hostname = EmptyString
    THEN /\ err \notin ValidationErrors(hostname)
         /\ "hostname" \notin idpBuilder.github.fields
    ELSE IF refused
    THEN /\ err \in ValidationErrors(hostname)
         /\ idpBuilder = ZeroIdentityProviderBuilder
    ELSE /\ err = NilError
         /\ "hostname" \in idpBuilder.github.fields
         /\ idpBuilder.github.hostname = hostname

\* C7 as claimed: an invocation that passes the conflict check and all its
\* prompts fails with the validation error when the hostname is neither a
\* DNS-1123 subdomain nor an IP literal, or is github.com or under it; it
\* succeeds carrying the hostname unchanged otherwise, and carries no
\* hostname when the flag is empty.
C7_HostnameDecidesOutcome ==
    (Returned /\ ~Conflicting /\ PassedAllPrompts) => HostnameOutcome

\* C7 amended: the same, of the invocations that also pass the parse of the
\* registration URL.
C7_HostnameDecidesOutcomeAfterURL ==
    (Returned /\ ~Conflicting /\ PassedAllPrompts /\ err # URLError) => HostnameOutcome

\* an interactive invocation has succeeded carrying an enterprise hostname
C7_Witness ==
    /\ Succeeded
    /\ terminal # <<>>
    /\ args.githubHostname = GheExampleCom
    /\ idpBuilder.github.hostname = GheExampleCom

----------------------------------------------------------------------------
(* C8 *)

\* what an interactive invocation shows when nothing aborts it
ExpectedShown ==
    <<HeaderLine.text>>
    \o (IF NeitherGiven THEN <<TeamsOrOrgsPrompt.text>> ELSE <<>>)
    \o <<OpenURLText, ClickLine.text>>
    \o (IF args.clientID = EmptyString THEN <<ClientIDPrompt.text>> ELSE <<>>)
    \o (IF args.clientSecret = EmptyString THEN <<ClientSecretPrompt.text>> ELSE <<>>)

\* C8: an interactive invocation shows, in this order and each at most once,
\* the header, the combined prompt (only if neither organizations nor teams
\* was given), the line with the registration URL, the client-ID prompt (only
\* if the client ID was missing) and the client-secret prompt (only if the
\* client secret was missing); when no prompt is aborted and the URL parses
\* it shows all of them, and the URL line carries a github.com URL.
C8_PromptsInOrder ==
    /\ IsPrefix(Shown, ExpectedShown)
    /\ (terminal # <<>> /\ (pc = "createIDP" \/ (Returned /\ err \notin InputErrors \cup {URLError})))
           => Shown = ExpectedShown
    /\ \A u \in PrintedURLs : u.Host = GithubCom /\ u.Query = urlParams

\* with only the client ID missing, the invocation has succeeded after
\* exactly one prompt, the one for the client ID
C8_Witness ==
    /\ Succeeded
    /\ args.clientID = EmptyString
    /\ args.clientSecret # EmptyString
    /\ args.githubOrganizations = Acme
    /\ Prompts = <<ClientIDPrompt>>

----------------------------------------------------------------------------
(* C9 *)

\* C9: an invocation that has returned has either no error and a complete
\* identity provider (type, name, mapping method, GitHub provider with client
\* ID and client secret), or an error and the zero-value builder; and once an
\* error is set the invocation has returned and takes no further step.
C9_NoPartialSuccess ==
    /\ Returned =>
          \/ /\ err = NilError
             /\ idpBuilder.fields = {"type", "name", "mapping_method", "github"}
             /\ idpBuilder.type = "GithubIdentityProvider"
             /\ idpBuilder.name = idpName
             /\ idpBuilder.mappingMethod = args.mappingMethod
             /\ ~idpBuilder.github.isNil
             /\ {"client_id", "client_secret"} \subseteq idpBuilder.github.fields
             /\ idpBuilder.github.clientID = clientID
             /\ idpBuilder.github.clientSecret = clientSecret
          \/ /\ err # NilError
             /\ idpBuilder = ZeroIdentityProviderBuilder
    /\ err # NilError => (Returned /\ ~ENABLED Next)
    /\ ~Returned => idpBuilder = ZeroIdentityProviderBuilder

\* an interactive invocation has been refused for its hostname after all its
\* prompts were answered, and returns the zero-value builder
C9_Witness ==
    /\ Returned
    /\ err = GithubHostnameError(GithubCom)
    /\ Prompts = <<TeamsOrOrgsPrompt, ClientIDPrompt, ClientSecretPrompt>>
    /\ idpBuilder = ZeroIdentityProviderBuilder

----------------------------------------------------------------------------
(* C10 *)

\* C10: past the conflict check, organizations and teams are never both
\* non-empty; the answer to the combined prompt goes to teams if it contains
\* '/' and to organizations otherwise; and an identity provider built never
\* carries both organizations and teams.
C10_OrganizationsXorTeams ==
    (pc # "entry" /\ err # ConflictError) =>
        /\ ~(organizations # EmptyString /\ teams # EmptyString)
        /\ (NeitherGiven /\ pc \notin {"askTeamsOrOrgs", "registerURL"} /\ err # InputErrorTeamsOrOrgs) =>
               IF Contains(teamsOrOrgs, "/")
               THEN teams = teamsOrOrgs /\ organizations = EmptyString
               ELSE organizations = teamsOrOrgs /\ teams = EmptyString
        /\ Succeeded => ~({"organizations", "teams"} \subseteq idpBuilder.github.fields)

\* an answer with a '/' has become the teams of the identity provider built
C10_Witness ==
    /\ Succeeded
    /\ NeitherGiven
    /\ teamsOrOrgs = AcmeDevs
    /\ idpBuilder.github.teams = <<AcmeDevs>>
    /\ "organizations" \notin idpBuilder.github.fields

====
